---------------------------- MODULE Spec2Model ----------------------------
(***************************************************************************)
(* A model of keeks: the BankRoll ledger (keeks/bankroll.py), the binary   *)
(* betting strategies (keeks/binary_strategies) and their shared base      *)
(* class.  Python floats are modelled as exact rationals [n, d] in lowest  *)
(* terms with d > 0, so that sums, products, comparisons and the 2-decimal *)
(* rounding of the ledger are computed, not assumed.                       *)
(***************************************************************************)
EXTENDS Integers, Sequences, FiniteSets, TLC

VARIABLES
    bankroll,   \* the BankRoll object: bank (_bank), percent_bettable, max_draw_down, history
    raised,     \* the exception the last BankRoll call raised, or "none"
    call,       \* the last BankRoll call: its name, its argument, the object before it
    calls,      \* number of BankRoll calls made so far
    mutations,  \* number of BankRoll calls so far that changed _bank
    strategy,   \* the strategy object (its class in field kind), or [kind |-> "none"]
    ret,        \* what the last strategy call returned
    raisedS,    \* the exception the last strategy call raised, or "none"
    scall,      \* the last strategy call: its name and arguments
    scalls,     \* number of strategy calls made so far
    sim,        \* the simulator object and the position of its evaluate_strategy loop
    search,     \* the frame of find_indifference_price: its arguments, low and high
    filtering   \* the frame of filter_dual_sided: its argument, its position, its result

vars ==
    <<bankroll, raised, call, calls, mutations, strategy, ret, raisedS, scall, scalls,
      sim, search, filtering>>

bankVars == <<bankroll, raised, call, calls, mutations>>
stratVars == <<strategy, ret, raisedS, scall, scalls>>

---------------------------------------------------------------------------
(* Rational arithmetic standing for Python float arithmetic.               *)

Abs(x) == IF x < 0 THEN -x ELSE x

RECURSIVE GCD(_, _)
GCD(a, b) == IF b = 0 THEN a ELSE GCD(b, a % b)

\* n/d in lowest terms, denominator positive (d # 0)
Rat(n, d) ==
    LET s == IF d < 0 THEN -1 ELSE 1
        g == GCD(Abs(n), Abs(d))
    IN  [n |-> (s * n) \div g, d |-> (s * d) \div g]

RInt(k) == [n |-> k, d |-> 1]
RZero == RInt(0)
ROne == RInt(1)
RHalf == Rat(1, 2)

\* The operands are in lowest terms; common factors are divided out before
\* multiplying, which keeps the intermediate integers small.
RAdd(a, b) ==
    LET g == GCD(a.d, b.d)
    IN  Rat(a.n * (b.d \div g) + b.n * (a.d \div g), a.d * (b.d \div g))
RSub(a, b) ==
    LET g == GCD(a.d, b.d)
    IN  Rat(a.n * (b.d \div g) - b.n * (a.d \div g), a.d * (b.d \div g))
RMul(a, b) ==
    LET g1 == GCD(Abs(a.n), b.d)
        g2 == GCD(Abs(b.n), a.d)
    IN  Rat((a.n \div g1) * (b.n \div g2), (a.d \div g2) * (b.d \div g1))
\* a / b for b # 0 (callers raise ZeroDivisionError themselves when b = 0)
RDiv(a, b) ==
    LET g1 == GCD(Abs(a.n), Abs(b.n))
        g2 == GCD(a.d, b.d)
    IN  Rat((a.n \div g1) * (b.d \div g2), (a.d \div g2) * (b.n \div g1))
RNeg(a) == [n |-> -a.n, d |-> a.d]

RLt(a, b) ==
    LET g == GCD(a.d, b.d)
    IN  a.n * (b.d \div g) < b.n * (a.d \div g)
RLe(a, b) ==
    LET g == GCD(a.d, b.d)
    IN  a.n * (b.d \div g) <= b.n * (a.d \div g)
RMin(a, b) == IF RLe(a, b) THEN a ELSE b
RMax(a, b) == IF RLe(b, a) THEN a ELSE b

\* Python's round(x, 2): the nearest multiple of 1/100, ties to the even one
Round2(x) ==
    LET g == GCD(100, x.d)
        num == (100 \div g) * x.n
        den == x.d \div g
        k == num \div den
        r2 == 2 * (num % den)
        up == \/ r2 > den
              \/ r2 = den /\ k % 2 = 1
    IN  Rat(IF up THEN k + 1 ELSE k, 100)

---------------------------------------------------------------------------
(* keeks/bankroll.py: class BankRoll.  max_draw_down None is modelled as   *)
(* NoLimit (0): `if self.max_draw_down and ...` treats None and 0 alike.   *)

NoLimit == RZero

\* BankRoll.__init__
BankRoll(initial_funds, percent_bettable, max_draw_down) ==
    [bank |-> initial_funds,
     percent_bettable |-> percent_bettable,
     max_draw_down |-> max_draw_down,
     history |-> <<initial_funds>>]

\* property bettable_funds
bettable_funds(self) == Round2(RMul(self.bank, self.percent_bettable))

\* property total_funds
total_funds(self) == Round2(self.bank)

\* update_history
update_history(self) == [self EXCEPT !.history = Append(@, total_funds(self))]

\* Each method returns the object after the call and the exception raised.
Returned(self) == [self |-> self, raised |-> "none"]
Raise(self, exc) == [self |-> self, raised |-> exc]

SlowDown == "RuinError: You lost too much money buddy, slow down."
BetTooLarge == "ValueError: Bet amount exceeds bettable funds"

\* the truthiness of self.max_draw_down
has_limit(self) == self.max_draw_down # NoLimit

deposit(self, amt) ==
    Returned(update_history([self EXCEPT !.bank = RAdd(@, amt)]))

\* withdraw subtracts first, then compares amt with the limit on the funds left
withdraw(self, amt) ==
    LET debited == [self EXCEPT !.bank = RSub(@, amt)]
    IN  IF has_limit(debited)
           /\ RLt(RMul(debited.max_draw_down, total_funds(debited)), amt)
        THEN Raise(debited, SlowDown)
        ELSE Returned(update_history(debited))

bet_unguarded(self, amount) ==
    Returned(update_history([self EXCEPT !.bank = RSub(@, amount)]))

bet(self, amount) ==
    IF RLt(bettable_funds(self), amount)
    THEN Raise(self, BetTooLarge)
    ELSE Returned(update_history([self EXCEPT !.bank = RSub(@, amount)]))

add_funds(self, amount) ==
    Returned(update_history([self EXCEPT !.bank = RAdd(@, amount)]))

\* remove_funds compares amount with the limit on the funds before, then subtracts
remove_funds(self, amount) ==
    IF has_limit(self)
       /\ RLt(RMul(self.max_draw_down, total_funds(self)), amount)
    THEN Raise(self, SlowDown)
    ELSE Returned(update_history([self EXCEPT !.bank = RSub(@, amount)]))

---------------------------------------------------------------------------
(* keeks/binary_strategies/base.py: class BaseStrategy.  A strategy is a   *)
(* record whose field kind names its class.  A method returns the object   *)
(* after the call, the value returned and the exception raised.            *)

Ret(self, value) == [self |-> self, ret |-> value, raised |-> "none"]
Throw(self, exc) == [self |-> self, ret |-> RZero, raised |-> exc]

ZeroDivision == "ZeroDivisionError"

NoStrategy == [kind |-> "none"]

PayoffError == "ValueError: Payoff must be greater than 0"
LossError == "ValueError: Loss must be non-negative"
TransactionCostError == "ValueError: Transaction cost must be non-negative"
TotalCostError ==
    "ValueError: Total cost (loss + transaction_cost) must be greater than 0"

BaseStrategy_init_zero_payoff(payoff, loss, transaction_cost) ==
    IF RLt(payoff, RZero) THEN PayoffError
    ELSE IF RLt(loss, RZero) THEN LossError
    ELSE IF RLt(transaction_cost, RZero) THEN TransactionCostError
    ELSE IF RLe(RAdd(loss, transaction_cost), RZero) THEN TotalCostError
    ELSE "none"

\* BaseStrategy.__init__: the exception it raises, or "none"
BaseStrategy_init(payoff, loss, transaction_cost) ==
    IF RLe(payoff, RZero) THEN PayoffError
    ELSE IF RLt(loss, RZero) THEN LossError
    ELSE IF RLt(transaction_cost, RZero) THEN TransactionCostError
    ELSE IF RLe(RAdd(loss, transaction_cost), RZero) THEN TotalCostError
    ELSE "none"

\* the fields BaseStrategy.__init__ sets
Base(kind, payoff, loss, transaction_cost) ==
    [kind |-> kind, payoff |-> payoff, loss |-> loss,
     transaction_cost |-> transaction_cost]

\* `not 0 <= x <= 1`
NotInUnit(x) == ~(RLe(RZero, x) /\ RLe(x, ROne))

\* a constructor's outcome: the object built, or the exception raised
Built(self) == [self |-> self, raised |-> "none"]
Refused(exc) == [self |-> NoStrategy, raised |-> exc]

\* a subclass __init__ that validates its own arguments before super().__init__
OwnChecksThenSuper(own, payoff, loss, transaction_cost, self) ==
    IF own # "none" THEN Refused(own)
    ELSE LET base == BaseStrategy_init(payoff, loss, transaction_cost)
         IN  IF base # "none" THEN Refused(base) ELSE Built(self)

\* a subclass __init__ that calls super().__init__ first
SuperThenOwnChecks(own, payoff, loss, transaction_cost, self) ==
    LET base == BaseStrategy_init(payoff, loss, transaction_cost)
    IN  IF base # "none" THEN Refused(base)
        ELSE IF own # "none" THEN Refused(own) ELSE Built(self)

\* get_max_safe_bet: min(1.0, (bankroll / (loss + cost)) / bankroll)
get_max_safe_bet(self, current_bankroll) ==
    IF current_bankroll = RZero THEN Throw(self, ZeroDivision)
    ELSE Ret(self,
             RMin(ROne,
                  RDiv(RDiv(current_bankroll, RAdd(self.loss, self.transaction_cost)),
                       current_bankroll)))

\* min(value, self.get_max_safe_bet(current_bankroll))
CapSafe(self, value, current_bankroll) ==
    LET m == get_max_safe_bet(self, current_bankroll)
    IN  IF m.raised # "none" THEN Throw(self, m.raised)
        ELSE Ret(self, RMin(value, m.ret))

---------------------------------------------------------------------------
(* keeks/binary_strategies/kelly.py                                        *)

MinProbabilityError == "ValueError: Minimum probability must be between 0 and 1"
FractionError == "ValueError: Fraction must be between 0 and 1"

KellyCriterion_init(payoff, loss, transaction_cost, x) ==
    OwnChecksThenSuper(IF NotInUnit(x.min_probability) THEN MinProbabilityError ELSE "none",
              payoff, loss, transaction_cost,
              [kind |-> "KellyCriterion", payoff |-> payoff, loss |-> loss,
               transaction_cost |-> transaction_cost,
               min_probability |-> x.min_probability])

KellyCriterion_evaluate(self, probability, current_bankroll) ==
    IF RLt(probability, self.min_probability) THEN Ret(self, RZero)
    \* line 75 evaluates self.payoff / self.loss and drops the quotient
    ELSE IF self.loss = RZero THEN Throw(self, ZeroDivision)
    ELSE LET q == RSub(ROne, probability)
             adjusted_payoff == RSub(self.payoff, self.transaction_cost)
             adjusted_loss == RAdd(self.loss, self.transaction_cost)
         IN  IF RLe(adjusted_payoff, RZero) \/ RLe(adjusted_loss, RZero)
             THEN Ret(self, RZero)
             ELSE LET adjusted_b == RDiv(adjusted_payoff, adjusted_loss)
                      kelly_fraction ==
                          RDiv(RSub(RMul(adjusted_b, probability), q), adjusted_b)
                  IN  CapSafe(self, RMax(RZero, kelly_fraction), current_bankroll)

\* KellyCriterion(self.payoff, self.loss, self.transaction_cost), as the two
\* subclasses below build it: min_probability takes its default
DefaultKelly(self) ==
    [kind |-> "KellyCriterion", payoff |-> self.payoff, loss |-> self.loss,
     transaction_cost |-> self.transaction_cost, min_probability |-> RHalf]

FractionalKellyCriterion_init(payoff, loss, transaction_cost, x) ==
    OwnChecksThenSuper(IF NotInUnit(x.fraction) THEN FractionError ELSE "none",
              payoff, loss, transaction_cost,
              [kind |-> "FractionalKellyCriterion", payoff |-> payoff, loss |-> loss,
               transaction_cost |-> transaction_cost, fraction |-> x.fraction])

FractionalKellyCriterion_evaluate(self, probability, current_bankroll) ==
    LET k == KellyCriterion_evaluate(DefaultKelly(self), probability, current_bankroll)
    IN  IF k.raised # "none" THEN Throw(self, k.raised)
        ELSE Ret(self, RMul(self.fraction, k.ret))

DrawdownAdjustedKelly_init(payoff, loss, transaction_cost, x) ==
    SuperThenOwnChecks(IF ~(RLt(RZero, x.max_acceptable_drawdown)
                    /\ RLt(x.max_acceptable_drawdown, ROne))
               THEN "ValueError: Maximum acceptable drawdown must be between 0 and 1 (exclusive)"
               ELSE "none",
               payoff, loss, transaction_cost,
               [kind |-> "DrawdownAdjustedKelly", payoff |-> payoff, loss |-> loss,
                transaction_cost |-> transaction_cost,
                max_acceptable_drawdown |-> x.max_acceptable_drawdown])

DrawdownAdjustedKelly_evaluate(self, probability, current_bankroll) ==
    LET k == KellyCriterion_evaluate(DefaultKelly(self), probability, current_bankroll)
        drawdown_factor == RMin(ROne, RDiv(self.max_acceptable_drawdown, RHalf))
    IN  IF k.raised # "none" THEN Throw(self, k.raised)
        ELSE CapSafe(self, RMul(drawdown_factor, k.ret), current_bankroll)

---------------------------------------------------------------------------
(* keeks/binary_strategies/simple.py: the strategies without running state *)

NaiveStrategy_init(payoff, loss, transaction_cost, x) ==
    OwnChecksThenSuper("none", payoff, loss, transaction_cost,
              Base("NaiveStrategy", payoff, loss, transaction_cost))

NaiveStrategy_evaluate(self, probability, current_bankroll) ==
    LET expected_value ==
            RSub(RSub(RMul(probability, self.payoff),
                      RMul(RSub(ROne, probability), self.loss)),
                 self.transaction_cost)
    IN  IF RLe(expected_value, RZero) THEN Ret(self, RZero)
        ELSE CapSafe(self, RMax(RZero, RDiv(expected_value, self.payoff)),
                     current_bankroll)

FixedFractionStrategy_init(payoff, loss, transaction_cost, x) ==
    OwnChecksThenSuper(IF NotInUnit(x.fraction) THEN FractionError
              ELSE IF NotInUnit(x.min_probability) THEN MinProbabilityError
              ELSE "none",
              payoff, loss, transaction_cost,
              [kind |-> "FixedFractionStrategy", payoff |-> payoff, loss |-> loss,
               transaction_cost |-> transaction_cost, fraction |-> x.fraction,
               min_probability |-> x.min_probability])

FixedFractionStrategy_evaluate_strict(self, probability, current_bankroll) ==
    IF RLt(self.min_probability, probability)
    THEN CapSafe(self, self.fraction, current_bankroll)
    ELSE Ret(self, RZero)

FixedFractionStrategy_evaluate(self, probability, current_bankroll) ==
    IF RLe(self.min_probability, probability)
    THEN CapSafe(self, self.fraction, current_bankroll)
    ELSE Ret(self, RZero)

OptimalF_init(payoff, loss, transaction_cost, x) ==
    OwnChecksThenSuper(IF NotInUnit(x.win_rate) THEN "ValueError: Win rate must be between 0 and 1"
              ELSE IF ~(RLt(RZero, x.max_risk_fraction) /\ RLe(x.max_risk_fraction, ROne))
              THEN "ValueError: Maximum risk fraction must be between 0 and 1"
              ELSE "none",
              payoff, loss, transaction_cost,
              [kind |-> "OptimalF", payoff |-> payoff, loss |-> loss,
               transaction_cost |-> transaction_cost, win_rate |-> x.win_rate,
               max_risk_fraction |-> x.max_risk_fraction])

OptimalF_evaluate(self, probability, current_bankroll) ==
    IF RLt(probability, RHalf) THEN Ret(self, RZero)
    ELSE LET adjusted_win_rate ==
                 IF RLt(RZero, probability) THEN probability ELSE self.win_rate
             adjusted_loss_rate == RSub(ROne, adjusted_win_rate)
             reward == RSub(self.payoff, self.transaction_cost)
             risk == RAdd(self.loss, self.transaction_cost)
         IN  IF RLe(reward, RZero) THEN Ret(self, RZero)
             ELSE LET optimal_f ==
                          RSub(adjusted_win_rate,
                               RDiv(adjusted_loss_rate, RDiv(reward, risk)))
                  IN  CapSafe(self,
                              RMin(RMax(RZero, optimal_f), self.max_risk_fraction),
                              current_bankroll)

MertonShare_init(payoff, loss, transaction_cost, x) ==
    OwnChecksThenSuper(IF RLe(x.risk_aversion, RZero)
              THEN "ValueError: Risk aversion must be greater than 0"
              ELSE IF NotInUnit(x.min_probability) THEN MinProbabilityError
              ELSE IF ~(RLt(RZero, x.max_fraction) /\ RLe(x.max_fraction, ROne))
              THEN "ValueError: Maximum fraction must be between 0 and 1"
              ELSE "none",
              payoff, loss, transaction_cost,
              [kind |-> "MertonShare", payoff |-> payoff, loss |-> loss,
               transaction_cost |-> transaction_cost,
               risk_aversion |-> x.risk_aversion,
               min_probability |-> x.min_probability,
               max_fraction |-> x.max_fraction])

MertonShare_evaluate(self, probability, current_bankroll) ==
    IF RLt(probability, self.min_probability) THEN Ret(self, RZero)
    ELSE LET lose == RSub(ROne, probability)
             expected_return ==
                 RSub(RMul(probability, RSub(self.payoff, self.transaction_cost)),
                      RMul(lose, RAdd(self.loss, self.transaction_cost)))
             mean_squared_return ==
                 RAdd(RMul(probability, RMul(self.payoff, self.payoff)),
                      RMul(lose, RMul(self.loss, self.loss)))
             mean == RSub(RMul(probability, self.payoff), RMul(lose, self.loss))
             variance == RSub(mean_squared_return, RMul(mean, mean))
         IN  IF RLe(expected_return, RZero) THEN Ret(self, RZero)
             ELSE IF RLe(variance, RZero) THEN Ret(self, RZero)
             ELSE CapSafe(self,
                          RMax(RZero,
                               RMin(RDiv(expected_return,
                                         RMul(self.risk_aversion, variance)),
                                    self.max_fraction)),
                          current_bankroll)

---------------------------------------------------------------------------
(* keeks/binary_strategies/simple.py: CPPIStrategy                         *)

CPPIStrategy_init(payoff, loss, transaction_cost, x) ==
    OwnChecksThenSuper(
        IF ~(RLt(RZero, x.floor_fraction) /\ RLt(x.floor_fraction, ROne))
        THEN "ValueError: Floor fraction must be between 0 and 1"
        ELSE IF RLe(x.multiplier, RZero)
        THEN "ValueError: Multiplier must be greater than 0"
        ELSE IF RLe(x.initial_bankroll, RZero)
        THEN "ValueError: Initial bankroll must be greater than 0"
        ELSE IF NotInUnit(x.min_probability) THEN MinProbabilityError
        ELSE "none",
        payoff, loss, transaction_cost,
        [kind |-> "CPPIStrategy", payoff |-> payoff, loss |-> loss,
         transaction_cost |-> transaction_cost,
         floor_fraction |-> x.floor_fraction,
         multiplier |-> x.multiplier,
         floor |-> RMul(x.floor_fraction, x.initial_bankroll),
         min_probability |-> x.min_probability,
         current_bankroll |-> x.initial_bankroll,
         peak_bankroll |-> x.initial_bankroll])

CPPIStrategy_update_bankroll_follow(self, new_bankroll) ==
    [self EXCEPT !.current_bankroll = new_bankroll,
                 !.peak_bankroll = new_bankroll,
                 !.floor = RMul(self.floor_fraction, new_bankroll)]

CPPIStrategy_update_bankroll(self, new_bankroll) ==
    IF RLt(self.peak_bankroll, new_bankroll)
    THEN [self EXCEPT !.current_bankroll = new_bankroll,
                      !.peak_bankroll = new_bankroll,
                      !.floor = RMul(self.floor_fraction, new_bankroll)]
    ELSE [self EXCEPT !.current_bankroll = new_bankroll]

CPPIStrategy_evaluate_no_floor_cap(self0, probability, current_bankroll) ==
    LET self == CPPIStrategy_update_bankroll(self0, current_bankroll)
        expected_value ==
            RSub(RMul(probability, RSub(self.payoff, self.transaction_cost)),
                 RMul(RSub(ROne, probability),
                      RAdd(self.loss, self.transaction_cost)))
        cushion == RMax(RZero, RSub(current_bankroll, self.floor))
        adjusted_multiplier == RMul(self.multiplier, RMin(ROne, expected_value))
        exposure == RMul(adjusted_multiplier, cushion)
    IN  IF RLt(probability, self.min_probability) THEN Ret(self, RZero)
        ELSE IF RLe(expected_value, RZero) THEN Ret(self, RZero)
        ELSE IF RLe(current_bankroll, RZero) THEN Ret(self, RZero)
        ELSE LET proportion == RMin(ROne, RDiv(exposure, current_bankroll))
                 capped == CapSafe(self, proportion, current_bankroll)
             IN  IF RLt(RZero, proportion)
                 THEN IF capped.raised # "none" THEN capped
                      ELSE Ret(self, RMax(RZero, capped.ret))
                 ELSE Ret(self, RMax(RZero, proportion))

CPPIStrategy_evaluate(self0, probability, current_bankroll) ==
    LET self == CPPIStrategy_update_bankroll(self0, current_bankroll)
        expected_value ==
            RSub(RMul(probability, RSub(self.payoff, self.transaction_cost)),
                 RMul(RSub(ROne, probability),
                      RAdd(self.loss, self.transaction_cost)))
        cushion == RMax(RZero, RSub(current_bankroll, self.floor))
        adjusted_multiplier == RMul(self.multiplier, RMin(ROne, expected_value))
        exposure == RMul(adjusted_multiplier, cushion)
    IN  IF RLt(probability, self.min_probability) THEN Ret(self, RZero)
        ELSE IF RLe(expected_value, RZero) THEN Ret(self, RZero)
        ELSE IF RLe(current_bankroll, RZero) THEN Ret(self, RZero)
        ELSE LET proportion == RMin(ROne, RDiv(exposure, current_bankroll))
                 max_floor_bet ==
                     RDiv(RSub(current_bankroll, self.floor),
                          RMul(current_bankroll,
                               RAdd(self.loss, self.transaction_cost)))
                 capped == CapSafe(self, RMin(proportion, max_floor_bet),
                                   current_bankroll)
             IN  IF RLt(RZero, proportion)
                 THEN IF capped.raised # "none" THEN capped
                      ELSE Ret(self, RMax(RZero, capped.ret))
                 ELSE Ret(self, RMax(RZero, proportion))

\* calculate_max_entry_price(outcomes, probabilities, current_wealth,
\* tolerance, max_search_fraction): outcomes, probabilities and tolerance
\* are not used
CPPIStrategy_calculate_max_entry_price(self0, current_wealth, max_search_fraction) ==
    LET self == CPPIStrategy_update_bankroll(self0, current_wealth)
        cushion == RMax(RZero, RSub(current_wealth, self.floor))
        max_price == RMin(RMul(self.multiplier, cushion), cushion)
    IN  Ret(self, RMin(max_price, RMul(max_search_fraction, current_wealth)))

---------------------------------------------------------------------------
(* keeks/binary_strategies/simple.py: DynamicBankrollManagement.  None is  *)
(* the record [n |-> 0, d |-> 0], which is no rational.                    *)

None == [n |-> 0, d |-> 0]

DynamicBankrollManagement_init(payoff, loss, transaction_cost, x) ==
    OwnChecksThenSuper(
        IF NotInUnit(x.base_fraction)
        THEN "ValueError: Base fraction must be between 0 and 1"
        ELSE IF ~(x.window_size > 0) THEN "ValueError: Window size must be positive"
        ELSE IF ~(/\ RLe(RZero, x.min_fraction)
                  /\ RLe(x.min_fraction, x.max_fraction)
                  /\ RLe(x.max_fraction, ROne))
        THEN "ValueError: Min fraction must be between 0 and max fraction, and max fraction must be between 0 and 1"
        ELSE "none",
        payoff, loss, transaction_cost,
        [kind |-> "DynamicBankrollManagement", payoff |-> payoff, loss |-> loss,
         transaction_cost |-> transaction_cost,
         base_fraction |-> x.base_fraction,
         window_size |-> x.window_size,
         max_fraction |-> x.max_fraction,
         min_fraction |-> x.min_fraction,
         results |-> <<>>,
         initial_bankroll |-> None,
         current_bankroll |-> None,
         peak_bankroll |-> None])

record_result_early_pop(self, won, return_pct) ==
    LET r == IF return_pct = None
             THEN (IF won THEN self.payoff ELSE RNeg(self.loss))
             ELSE return_pct
        appended == Append(self.results, r)
    IN  [self EXCEPT !.results = IF Len(appended) >= self.window_size
                                 THEN Tail(appended)
                                 ELSE appended]

\* record_result(won, return_pct=None)
record_result(self, won, return_pct) ==
    LET r == IF return_pct = None
             THEN (IF won THEN self.payoff ELSE RNeg(self.loss))
             ELSE return_pct
        appended == Append(self.results, r)
    IN  [self EXCEPT !.results = IF Len(appended) > self.window_size
                                 THEN Tail(appended)
                                 ELSE appended]

\* min(len(self.results), self.window_size) / self.window_size
WindowScale(self) ==
    Rat(IF Len(self.results) < self.window_size
        THEN Len(self.results) ELSE self.window_size,
        self.window_size)

get_streak_factor(self) ==
    LET wins == Cardinality({i \in DOMAIN self.results : RLt(RZero, self.results[i])})
        losses == Cardinality({i \in DOMAIN self.results : RLt(self.results[i], RZero)})
        scale == WindowScale(self)
    IN  IF self.results = <<>> THEN ROne
        ELSE IF losses = 0 THEN RAdd(ROne, RMul(RHalf, scale))
        ELSE IF wins = 0 THEN RSub(ROne, RMul(RHalf, scale))
        ELSE RAdd(ROne, RMul(RSub(Rat(wins, wins + losses), RHalf), scale))

RECURSIVE RSum(_)
RSum(seq) == IF seq = <<>> THEN RZero ELSE RAdd(Head(seq), RSum(Tail(seq)))

\* the largest r in lo..hi with r * r <= v
RECURSIVE ISqrtBetween(_, _, _)
ISqrtBetween(v, lo, hi) ==
    IF lo >= hi THEN lo
    ELSE LET mid == (lo + hi + 1) \div 2
         IN  IF mid * mid <= v THEN ISqrtBetween(v, mid, hi)
             ELSE ISqrtBetween(v, lo, mid - 1)

\* digits kept by the square root below: it is exact to 1 / SqrtPrecision
SqrtPrecision == 100

\* the square root of x >= 0, rounded down to a multiple of 1 / (x.d * SqrtPrecision)
RSqrt(x) ==
    LET v == x.n * x.d * SqrtPrecision * SqrtPrecision
    IN  Rat(ISqrtBetween(v, 0, IF v < 46340 THEN v ELSE 46340), x.d * SqrtPrecision)

\* np.std(returns): the population standard deviation
Std(seq) ==
    LET n == RInt(Len(seq))
        mean == RDiv(RSum(seq), n)
        squares == [i \in DOMAIN seq |-> RMul(seq[i], seq[i])]
        variance == RSub(RDiv(RSum(squares), n), RMul(mean, mean))
    IN  RSqrt(variance)

get_volatility_factor(self) ==
    IF self.results = <<>> THEN ROne
    ELSE LET volatility == Std(self.results)
         IN  IF volatility = RZero THEN ROne
             ELSE RMax(RHalf, RSub(ROne, RMul(volatility, WindowScale(self))))

get_drawdown_factor_unfloored(self) ==
    IF self.current_bankroll = None \/ self.peak_bankroll = None THEN Ret(self, ROne)
    ELSE IF self.peak_bankroll = RZero THEN Throw(self, ZeroDivision)
    ELSE Ret(self,
             RSub(ROne,
                  RSub(ROne, RDiv(self.current_bankroll, self.peak_bankroll))))

\* called from evaluate, after it has set current_bankroll and peak_bankroll
get_drawdown_factor(self) ==
    IF self.current_bankroll = None \/ self.peak_bankroll = None THEN Ret(self, ROne)
    ELSE IF self.peak_bankroll = RZero THEN Throw(self, ZeroDivision)
    ELSE Ret(self,
             RMax(RHalf,
                  RSub(ROne,
                       RSub(ROne, RDiv(self.current_bankroll, self.peak_bankroll)))))

get_probability_factor(self, probability) ==
    IF self.results = <<>> THEN ROne
    ELSE RMax(RHalf, RMin(Rat(3, 2), RAdd(ROne, RSub(probability, RHalf))))

DynamicBankrollManagement_evaluate_no_max(self0, probability, current_bankroll) ==
    LET first == self0.initial_bankroll = None
        peak0 == IF first THEN current_bankroll ELSE self0.peak_bankroll
        self == [self0 EXCEPT
                    !.initial_bankroll = IF first THEN current_bankroll ELSE @,
                    !.current_bankroll = current_bankroll,
                    !.peak_bankroll = RMax(peak0, current_bankroll)]
        drawdown == get_drawdown_factor(self)
        combined_factor ==
            RMul(RMul(RMul(get_streak_factor(self), get_volatility_factor(self)),
                      drawdown.ret),
                 get_probability_factor(self, probability))
        bet_size == RMul(self.base_fraction, combined_factor)
    IN  IF drawdown.raised # "none" THEN Throw(self, drawdown.raised)
        ELSE Ret(self, RMax(self.min_fraction, bet_size))

DynamicBankrollManagement_evaluate(self0, probability, current_bankroll) ==
    LET first == self0.initial_bankroll = None
        peak0 == IF first THEN current_bankroll ELSE self0.peak_bankroll
        self == [self0 EXCEPT
                    !.initial_bankroll = IF first THEN current_bankroll ELSE @,
                    !.current_bankroll = current_bankroll,
                    !.peak_bankroll = RMax(peak0, current_bankroll)]
        drawdown == get_drawdown_factor(self)
        combined_factor ==
            RMul(RMul(RMul(get_streak_factor(self), get_volatility_factor(self)),
                      drawdown.ret),
                 get_probability_factor(self, probability))
        bet_size == RMul(self.base_fraction, combined_factor)
    IN  IF drawdown.raised # "none" THEN Throw(self, drawdown.raised)
        ELSE Ret(self, RMax(self.min_fraction, RMin(self.max_fraction, bet_size)))

---------------------------------------------------------------------------
(* Dispatch on the class of the object.                                    *)

Kinds ==
    {"KellyCriterion", "FractionalKellyCriterion", "DrawdownAdjustedKelly",
     "OptimalF", "NaiveStrategy", "FixedFractionStrategy", "CPPIStrategy",
     "DynamicBankrollManagement", "MertonShare"}

\* kind(payoff, loss, transaction_cost, **x)
New(kind, payoff, loss, transaction_cost, x) ==
    CASE kind = "KellyCriterion" -> KellyCriterion_init(payoff, loss, transaction_cost, x)
      [] kind = "FractionalKellyCriterion" ->
            FractionalKellyCriterion_init(payoff, loss, transaction_cost, x)
      [] kind = "DrawdownAdjustedKelly" ->
            DrawdownAdjustedKelly_init(payoff, loss, transaction_cost, x)
      [] kind = "OptimalF" -> OptimalF_init(payoff, loss, transaction_cost, x)
      [] kind = "NaiveStrategy" -> NaiveStrategy_init(payoff, loss, transaction_cost, x)
      [] kind = "FixedFractionStrategy" ->
            FixedFractionStrategy_init(payoff, loss, transaction_cost, x)
      [] kind = "CPPIStrategy" -> CPPIStrategy_init(payoff, loss, transaction_cost, x)
      [] kind = "DynamicBankrollManagement" ->
            DynamicBankrollManagement_init(payoff, loss, transaction_cost, x)
      [] kind = "MertonShare" -> MertonShare_init(payoff, loss, transaction_cost, x)

\* self.evaluate(probability, current_bankroll)
evaluate(self, probability, current_bankroll) ==
    CASE self.kind = "KellyCriterion" ->
            KellyCriterion_evaluate(self, probability, current_bankroll)
      [] self.kind = "FractionalKellyCriterion" ->
            FractionalKellyCriterion_evaluate(self, probability, current_bankroll)
      [] self.kind = "DrawdownAdjustedKelly" ->
            DrawdownAdjustedKelly_evaluate(self, probability, current_bankroll)
      [] self.kind = "OptimalF" -> OptimalF_evaluate(self, probability, current_bankroll)
      [] self.kind = "NaiveStrategy" ->
            NaiveStrategy_evaluate(self, probability, current_bankroll)
      [] self.kind = "FixedFractionStrategy" ->
            FixedFractionStrategy_evaluate(self, probability, current_bankroll)
      [] self.kind = "CPPIStrategy" ->
            CPPIStrategy_evaluate(self, probability, current_bankroll)
      [] self.kind = "DynamicBankrollManagement" ->
            DynamicBankrollManagement_evaluate(self, probability, current_bankroll)
      [] self.kind = "MertonShare" ->
            MertonShare_evaluate(self, probability, current_bankroll)

---------------------------------------------------------------------------
(* The ledger driven by an arbitrary caller.                               *)

MaxCalls == 3

InitialFunds == {RInt(100), RInt(1000)}
PercentBettable == {ROne, RHalf}
MaxDrawDown == {NoLimit, Rat(1, 5), ROne}
\* positive amounts; 1/8 is not a whole number of cents
Amounts == {Rat(1, 8), RInt(100), RInt(150), RInt(180)}

\* no simulator is run
SimIdle == sim = [status |-> "none"]

\* no entry price is being searched for
SearchIdle == search = [status |-> "none"]

\* no allocation is being filtered
FilterIdle == filtering = [status |-> "none"]

StratIdle ==
    /\ strategy = NoStrategy
    /\ ret = RZero
    /\ raisedS = "none"
    /\ scall = [op |-> "none"]
    /\ scalls = 0

InitBank ==
    /\ \E f \in InitialFunds, pb \in PercentBettable, mdd \in MaxDrawDown :
          bankroll = BankRoll(f, pb, mdd)
    /\ raised = "none"
    /\ call = [op |-> "__init__", amt |-> RZero, pre |-> bankroll]
    /\ calls = 0
    /\ mutations = 0
    /\ StratIdle
    /\ SimIdle
    /\ SearchIdle
    /\ FilterIdle

\* the caller's view of one call: the object is mutated in place even when
\* the call raises
Apply(op, amt, res) ==
    /\ calls < MaxCalls
    /\ bankroll' = res.self
    /\ raised' = res.raised
    /\ call' = [op |-> op, amt |-> amt, pre |-> bankroll]
    /\ calls' = calls + 1
    /\ mutations' = IF res.self.bank # bankroll.bank THEN mutations + 1 ELSE mutations
    /\ UNCHANGED stratVars
    /\ UNCHANGED <<sim, search, filtering>>

Deposit == \E amt \in Amounts : Apply("deposit", amt, deposit(bankroll, amt))
Withdraw == \E amt \in Amounts : Apply("withdraw", amt, withdraw(bankroll, amt))
Bet == \E amt \in Amounts : Apply("bet", amt, bet(bankroll, amt))
AddFunds == \E amt \in Amounts : Apply("add_funds", amt, add_funds(bankroll, amt))
RemoveFunds == \E amt \in Amounts : Apply("remove_funds", amt, remove_funds(bankroll, amt))

NextBank == Deposit \/ Withdraw \/ Bet \/ AddFunds \/ RemoveFunds

SpecBank == InitBank /\ [][NextBank]_vars

---------------------------------------------------------------------------
(* A strategy built and then called by an arbitrary caller.                *)

MaxStratCalls == 2

Payoffs == {RZero, ROne, RInt(2), RInt(5)}
Losses == {RInt(-1), RZero, ROne, RInt(2)}
TransactionCosts == {RInt(-1), RZero, Rat(1, 10)}
Probabilities == {RZero, Rat(3, 10), RHalf, Rat(3, 5), ROne}
Bankrolls == {RZero, RInt(50), RInt(100), RInt(1000)}
ReturnPcts == {None, RZero}
\* max_search_fraction: its default and the whole of the wealth
SearchFractions == {RHalf, ROne}

\* the keyword arguments tried for each class, valid and invalid
KeywordArgs(kind) ==
    CASE kind = "KellyCriterion" ->
            {[min_probability |-> m] : m \in {RZero, RHalf, Rat(3, 2)}}
      [] kind = "FractionalKellyCriterion" ->
            {[fraction |-> f] : f \in {RHalf, ROne, RInt(2)}}
      [] kind = "DrawdownAdjustedKelly" ->
            {[max_acceptable_drawdown |-> d] : d \in {Rat(1, 5), Rat(3, 4), ROne}}
      [] kind = "OptimalF" ->
            {[win_rate |-> Rat(3, 5), max_risk_fraction |-> Rat(1, 5)],
             [win_rate |-> Rat(3, 5), max_risk_fraction |-> ROne],
             [win_rate |-> RInt(2), max_risk_fraction |-> ROne],
             [win_rate |-> Rat(3, 5), max_risk_fraction |-> RZero]}
      [] kind = "NaiveStrategy" -> {[none |-> None]}
      [] kind = "FixedFractionStrategy" ->
            {[fraction |-> Rat(1, 4), min_probability |-> RHalf],
             [fraction |-> ROne, min_probability |-> RZero],
             [fraction |-> RInt(2), min_probability |-> RHalf],
             [fraction |-> Rat(1, 4), min_probability |-> RInt(-1)]}
      [] kind = "CPPIStrategy" ->
            {[floor_fraction |-> RHalf, multiplier |-> RInt(2),
              initial_bankroll |-> RInt(100), min_probability |-> RHalf],
             [floor_fraction |-> Rat(4, 5), multiplier |-> RInt(5),
              initial_bankroll |-> RInt(1000), min_probability |-> RZero],
             [floor_fraction |-> ROne, multiplier |-> RInt(2),
              initial_bankroll |-> RInt(100), min_probability |-> RHalf],
             [floor_fraction |-> RHalf, multiplier |-> RZero,
              initial_bankroll |-> RInt(100), min_probability |-> RHalf],
             [floor_fraction |-> RHalf, multiplier |-> RInt(2),
              initial_bankroll |-> RZero, min_probability |-> RHalf],
             [floor_fraction |-> RHalf, multiplier |-> RInt(2),
              initial_bankroll |-> RInt(100), min_probability |-> RInt(2)]}
      [] kind = "DynamicBankrollManagement" ->
            {[base_fraction |-> Rat(1, 10), window_size |-> 2,
              max_fraction |-> Rat(1, 5), min_fraction |-> Rat(1, 20)],
             [base_fraction |-> ROne, window_size |-> 1,
              max_fraction |-> ROne, min_fraction |-> Rat(1, 20)],
             [base_fraction |-> RInt(2), window_size |-> 2,
              max_fraction |-> Rat(1, 5), min_fraction |-> Rat(1, 20)],
             [base_fraction |-> Rat(1, 10), window_size |-> 0,
              max_fraction |-> Rat(1, 5), min_fraction |-> Rat(1, 20)],
             [base_fraction |-> Rat(1, 10), window_size |-> 2,
              max_fraction |-> Rat(1, 20), min_fraction |-> Rat(1, 5)]}
      [] kind = "MertonShare" ->
            {[risk_aversion |-> RInt(2), min_probability |-> RHalf,
              max_fraction |-> ROne],
             [risk_aversion |-> ROne, min_probability |-> RZero,
              max_fraction |-> RHalf],
             [risk_aversion |-> RZero, min_probability |-> RHalf,
              max_fraction |-> ROne],
             [risk_aversion |-> RInt(2), min_probability |-> RHalf,
              max_fraction |-> RInt(2)]}

BankIdle ==
    /\ bankroll = BankRoll(RZero, ROne, NoLimit)
    /\ raised = "none"
    /\ call = [op |-> "none"]
    /\ calls = 0
    /\ mutations = 0

InitStrat == StratIdle /\ BankIdle /\ SimIdle /\ SearchIdle /\ FilterIdle

Construct ==
    /\ scall.op = "none"
    /\ \E kind \in Kinds, payoff \in Payoffs, loss \in Losses,
          transaction_cost \in TransactionCosts :
          \E x \in KeywordArgs(kind) :
             LET res == New(kind, payoff, loss, transaction_cost, x)
             IN  /\ strategy' = res.self
                 /\ raisedS' = res.raised
                 /\ scall' = [op |-> "__init__", kind |-> kind, payoff |-> payoff,
                              loss |-> loss, transaction_cost |-> transaction_cost,
                              x |-> x]
    /\ UNCHANGED <<ret, scalls>>
    /\ UNCHANGED bankVars
    /\ UNCHANGED <<sim, search, filtering>>

Callable == strategy # NoStrategy /\ scalls < MaxStratCalls

Evaluate ==
    /\ Callable
    /\ \E probability \in Probabilities, current_bankroll \in Bankrolls :
          LET res == evaluate(strategy, probability, current_bankroll)
          IN  /\ strategy' = res.self
              /\ ret' = res.ret
              /\ raisedS' = res.raised
              /\ scall' = [op |-> "evaluate", probability |-> probability,
                           current_bankroll |-> current_bankroll, pre |-> strategy]
    /\ scalls' = scalls + 1
    /\ UNCHANGED bankVars
    /\ UNCHANGED <<sim, search, filtering>>

UpdateBankroll ==
    /\ Callable
    /\ strategy.kind = "CPPIStrategy"
    /\ \E new_bankroll \in Bankrolls :
          /\ strategy' = CPPIStrategy_update_bankroll(strategy, new_bankroll)
          /\ scall' = [op |-> "update_bankroll", new_bankroll |-> new_bankroll,
                       pre |-> strategy]
    /\ raisedS' = "none"
    /\ scalls' = scalls + 1
    /\ UNCHANGED ret
    /\ UNCHANGED bankVars
    /\ UNCHANGED <<sim, search, filtering>>

RecordResult ==
    /\ Callable
    /\ strategy.kind = "DynamicBankrollManagement"
    /\ \E won \in BOOLEAN, return_pct \in ReturnPcts :
          /\ strategy' = record_result(strategy, won, return_pct)
          /\ scall' = [op |-> "record_result", won |-> won,
                       return_pct |-> return_pct, pre |-> strategy]
    /\ raisedS' = "none"
    /\ scalls' = scalls + 1
    /\ UNCHANGED ret
    /\ UNCHANGED bankVars
    /\ UNCHANGED <<sim, search, filtering>>

CalculateMaxEntryPrice ==
    /\ Callable
    /\ strategy.kind = "CPPIStrategy"
    /\ \E current_wealth \in Bankrolls, max_search_fraction \in SearchFractions :
          LET res == CPPIStrategy_calculate_max_entry_price(
                         strategy, current_wealth, max_search_fraction)
          IN  /\ strategy' = res.self
              /\ ret' = res.ret
              /\ raisedS' = res.raised
              /\ scall' = [op |-> "calculate_max_entry_price",
                           current_wealth |-> current_wealth,
                           max_search_fraction |-> max_search_fraction,
                           pre |-> strategy]
    /\ scalls' = scalls + 1
    /\ UNCHANGED bankVars
    /\ UNCHANGED <<sim, search, filtering>>

NextStrat ==
    Construct \/ Evaluate \/ UpdateBankroll \/ RecordResult \/ CalculateMaxEntryPrice

SpecStrat == InitStrat /\ [][NextStrat]_vars

---------------------------------------------------------------------------
(* keeks/simulators/repeated_binary.py: RepeatedBinarySimulator.  A run of *)
(* evaluate_strategy(strategy, bankroll) is followed trial by trial; the   *)
(* draw random.random() < probability is the choice between the two trial *)
(* actions.                                                                *)

MaxTrials == 4

\* the classes run through the simulator: with and without the
\* update_bankroll hook, with and without a probability gate
SimKinds ==
    {"KellyCriterion", "FixedFractionStrategy", "CPPIStrategy", "NaiveStrategy"}
SimPayoffs == {ROne, RInt(2)}
\* (loss, transaction cost) pairs the strategies accept
SimCosts == {<<ROne, RZero>>, <<Rat(9, 10), Rat(1, 10)>>, <<RZero, RHalf>>}
SimProbabilities == {Rat(3, 10), Rat(3, 5), ROne}
SimFunds == {ROne, RInt(100)}
\* percent_bettable at its default 1.0, as in every simulator run of tests/
SimPercentBettable == {ROne}
\* max_draw_down None and its default 0.3
SimMaxDrawDown == {NoLimit, Rat(3, 10)}

\* the keyword arguments of the strategy handed to the simulator; a
\* CPPIStrategy is told the bankroll's initial funds
SimKeywordArgs(kind, funds) ==
    CASE kind = "KellyCriterion" -> {[min_probability |-> RHalf]}
      [] kind = "FractionalKellyCriterion" -> {[fraction |-> RHalf]}
      [] kind = "DrawdownAdjustedKelly" -> {[max_acceptable_drawdown |-> Rat(1, 5)]}
      [] kind = "OptimalF" -> {[win_rate |-> Rat(3, 5), max_risk_fraction |-> Rat(1, 5)]}
      [] kind = "NaiveStrategy" -> {[none |-> None]}
      [] kind = "FixedFractionStrategy" ->
            {[fraction |-> Rat(1, 4), min_probability |-> RZero],
             [fraction |-> ROne, min_probability |-> RZero]}
      [] kind = "CPPIStrategy" ->
            {[floor_fraction |-> RHalf, multiplier |-> RInt(2),
              initial_bankroll |-> funds, min_probability |-> RHalf],
             [floor_fraction |-> Rat(4, 5), multiplier |-> RInt(5),
              initial_bankroll |-> funds, min_probability |-> RHalf]}
      [] kind = "DynamicBankrollManagement" ->
            {[base_fraction |-> Rat(1, 10), window_size |-> 2,
              max_fraction |-> Rat(1, 5), min_fraction |-> Rat(1, 20)]}
      [] kind = "MertonShare" ->
            {[risk_aversion |-> RInt(2), min_probability |-> RHalf,
              max_fraction |-> ROne]}

\* RepeatedBinarySimulator.__init__, and the loop not yet entered
RepeatedBinarySimulator(payoff, loss, transaction_costs, probability, trials) ==
    [payoff |-> payoff, loss |-> loss, transaction_costs |-> transaction_costs,
     probability |-> probability, trials |-> trials,
     trial |-> 0, status |-> "running", outcome |-> "none"]

InitSim ==
    /\ \E kind \in SimKinds, payoff \in SimPayoffs, cost \in SimCosts,
          funds \in SimFunds, pb \in SimPercentBettable, mdd \in SimMaxDrawDown,
          p \in SimProbabilities :
          \E x \in SimKeywordArgs(kind, funds) :
             /\ strategy = New(kind, payoff, cost[1], cost[2], x).self
             /\ scall = [op |-> "__init__", kind |-> kind, payoff |-> payoff,
                         loss |-> cost[1], transaction_cost |-> cost[2], x |-> x]
             /\ bankroll = BankRoll(funds, pb, mdd)
             /\ sim = RepeatedBinarySimulator(payoff, cost[1], cost[2], p, MaxTrials)
    /\ ret = RZero
    /\ raisedS = "none"
    /\ scalls = 0
    /\ raised = "none"
    /\ call = [op |-> "__init__", amt |-> RZero, pre |-> bankroll]
    /\ calls = 0
    /\ mutations = 0
    /\ SearchIdle
    /\ FilterIdle

StatusAfter_swallowed(exc) == "running"

\* the loop has no try/except: an exception raised in a trial leaves
\* evaluate_strategy at once
StatusAfter(exc) == IF exc = "none" THEN "running" ELSE exc

\* `if hasattr(strategy, "update_bankroll"): strategy.update_bankroll(...)`
Hooked(self, funds) ==
    IF self.kind = "CPPIStrategy" THEN CPPIStrategy_update_bankroll(self, funds)
    ELSE self

\* the rest of a pass of the loop body once the strategy has answered: ev is
\* the outcome of strategy.evaluate, hooked the strategy it was called on
Settle(won, hooked, ev) ==
    LET proportion == ev.ret
        amt == RSub(RMul(RMul(IF won THEN sim.payoff ELSE sim.loss,
                              bettable_funds(bankroll)),
                         proportion),
                    sim.transaction_costs)
        res == IF won THEN deposit(bankroll, amt) ELSE withdraw(bankroll, amt)
    IN  /\ strategy' = ev.self
        /\ ret' = ev.ret
        /\ raisedS' = ev.raised
        /\ scall' = [op |-> "evaluate", probability |-> sim.probability,
                     current_bankroll |-> total_funds(bankroll), pre |-> hooked]
        /\ scalls' = scalls + 1
        /\ UNCHANGED <<search, filtering>>
        /\ IF ev.raised # "none"
           THEN /\ sim' = [sim EXCEPT !.trial = @ + 1,
                                      !.status = StatusAfter(ev.raised),
                                      !.outcome = "none"]
                /\ UNCHANGED bankVars
           ELSE /\ bankroll' = res.self
                /\ raised' = res.raised
                /\ call' = [op |-> IF won THEN "deposit" ELSE "withdraw",
                            amt |-> amt, pre |-> bankroll]
                /\ calls' = calls + 1
                /\ mutations' = IF res.self.bank # bankroll.bank
                                THEN mutations + 1 ELSE mutations
                /\ sim' = [sim EXCEPT !.trial = @ + 1,
                                      !.status = StatusAfter(res.raised),
                                      !.outcome = IF won THEN "win" ELSE "lose"]

\* one pass of the loop body, the draw having come out as `won`
Trial(won) ==
    /\ sim.status = "running"
    /\ sim.trial < sim.trials
    /\ Settle(won,
              Hooked(strategy, total_funds(bankroll)),
              evaluate(Hooked(strategy, total_funds(bankroll)),
                       sim.probability, total_funds(bankroll)))

\* random.random() lies in [0, 1): it is below probability only if that is > 0
TrialWon == RLt(RZero, sim.probability) /\ Trial(TRUE)
TrialLost == RLt(sim.probability, ROne) /\ Trial(FALSE)

\* range(self.trials) is exhausted: evaluate_strategy returns None
Done ==
    /\ sim.status = "running"
    /\ sim.trial = sim.trials
    /\ sim' = [sim EXCEPT !.status = "done", !.outcome = "none"]
    /\ UNCHANGED bankVars
    /\ UNCHANGED stratVars
    /\ UNCHANGED <<search, filtering>>

NextSim == TrialWon \/ TrialLost \/ Done

SpecSim == InitSim /\ [][NextSim]_vars

---------------------------------------------------------------------------
(* keeks/utils.py: find_indifference_price, reached through                *)
(* KellyCriterion.calculate_max_entry_price (risk_aversion = 1.0, log      *)
(* utility).  The binary search is followed iteration by iteration.  Its   *)
(* floats have a finite resolution: they are whole multiples of the        *)
(* quantum 2^-FloatBits, the binary digits after the point standing for    *)
(* the mantissa of a double, and low, high and mid are kept as their       *)
(* number of quanta.                                                       *)

MaxQueries == 2
FloatBits == 3

\* quanta in 1.0
Scale == 2 ^ FloatBits

\* the float nearest to the rational x, in quanta, ties to the even one
Quanta(x) ==
    LET g == GCD(Scale, x.d)
        num == (Scale \div g) * x.n
        den == x.d \div g
        k == num \div den
        r2 == 2 * (num % den)
        up == \/ r2 > den
              \/ r2 = den /\ k % 2 = 1
    IN  IF up THEN k + 1 ELSE k

\* the rational a float of k quanta stands for
Float(k) == Rat(k, Scale)

LCM(a, b) == (a \div GCD(a, b)) * b

\* the common denominator N of the probabilities
RECURSIVE CommonDenominator(_)
CommonDenominator(probabilities) ==
    IF probabilities = <<>> THEN 1
    ELSE LCM(Head(probabilities).d, CommonDenominator(Tail(probabilities)))

\* crra_utility(wealth, 1.0), the wealth in quanta: a log utility U is kept
\* as exp(U), which is the wealth itself, and -inf as 0
crra_utility(wealth) == IF wealth <= 0 THEN 0 ELSE wealth

\* the product of utilities[i] ^ (N * probabilities[i]) from entry i on
RECURSIVE WeightedProduct(_, _, _, _)
WeightedProduct(utilities, probabilities, N, i) ==
    IF i > Len(utilities) THEN 1
    ELSE (utilities[i] ^ (probabilities[i].n * (N \div probabilities[i].d)))
         * WeightedProduct(utilities, probabilities, N, i + 1)

\* N * (the sum of the probabilities)
RECURSIVE Weights(_, _)
Weights(probabilities, N) ==
    IF probabilities = <<>> THEN 0
    ELSE Head(probabilities).n * (N \div Head(probabilities).d)
         + Weights(Tail(probabilities), N)

\* expected_utility(outcomes, probabilities, current_wealth, entry_price, 1.0)
\* for log utility, kept as exp(N * U) with wealth in quanta; a final
\* wealth <= 0 makes np.sum(...) -inf or nan, kept as 0
expected_utility(outcomes, probabilities, current_wealth, entry_price) ==
    LET N == CommonDenominator(probabilities)
        final_wealth == [i \in DOMAIN outcomes |->
                            current_wealth - entry_price + Quanta(outcomes[i])]
        utilities == [i \in DOMAIN outcomes |-> crra_utility(final_wealth[i])]
    IN  IF \E i \in DOMAIN outcomes : utilities[i] = 0 THEN 0
        ELSE WeightedProduct(utilities, probabilities, N, 1)
             * (Scale ^ (N - Weights(probabilities, N)))

\* `exp_util > current_utility`, both sides kept as exp(N * U)
WillingToPayMore(s, mid) ==
    expected_utility(s.outcomes, s.probabilities, Quanta(s.current_wealth), mid)
        > crra_utility(Quanta(s.current_wealth)) ^ CommonDenominator(s.probabilities)

\* find_indifference_price up to its loop: low = 0.0 and
\* high = current_wealth * max_search_fraction
find_indifference_price(outcomes, probabilities, current_wealth, tolerance, max_search_fraction) ==
    [status |-> "running",
     outcomes |-> outcomes, probabilities |-> probabilities,
     current_wealth |-> current_wealth, tolerance |-> tolerance,
     max_search_fraction |-> max_search_fraction,
     low |-> 0,
     high |-> Quanta(RMul(current_wealth, max_search_fraction))]

\* `while high - low > tolerance`
SearchContinues(s) == (s.high - s.low) * s.tolerance.d > s.tolerance.n * Scale

\* (low + high) / 2, rounded to a float: half a quantum goes to the even side
Mid(s) ==
    LET sum == s.low + s.high
        down == sum \div 2
    IN  IF sum % 2 = 0 \/ down % 2 = 0 THEN down ELSE down + 1

\* one pass of the loop body
SearchStep(s) ==
    IF WillingToPayMore(s, Mid(s))
    THEN [s EXCEPT !.low = Mid(s)]
    ELSE [s EXCEPT !.high = Mid(s)]

KellyCriterion_calculate_max_entry_price_noting(self, found) ==
    Ret([self EXCEPT !.min_probability = found], found)

\* KellyCriterion.calculate_max_entry_price hands back what
\* find_indifference_price returned
KellyCriterion_calculate_max_entry_price(self, found) == Ret(self, found)

\* the gambles priced: a fair coin, a sure gain, a gain at either outcome
\* and a favourable coin
Gambles ==
    {[outcomes |-> <<RInt(8), RInt(-8)>>, probabilities |-> <<RHalf, RHalf>>],
     [outcomes |-> <<RInt(3)>>, probabilities |-> <<ROne>>],
     [outcomes |-> <<RInt(20), RInt(5)>>, probabilities |-> <<RHalf, RHalf>>],
     [outcomes |-> <<RInt(16), RInt(-2)>>, probabilities |-> <<RHalf, RHalf>>]}
Wealths == {RZero, RInt(8), RInt(10)}
\* a tolerance above the resolution of the floats and one below it
Tolerances == {ROne, Rat(1, 100)}

\* the arguments of the call in progress or last made
QueryArgs(c) ==
    [outcomes |-> c.outcomes, probabilities |-> c.probabilities,
     current_wealth |-> c.current_wealth, tolerance |-> c.tolerance,
     max_search_fraction |-> c.max_search_fraction]

\* a KellyCriterion built, nothing asked of it yet; `before` and `last` hold
\* the arguments and the result of the last two calls that returned
InitPrice ==
    /\ \E payoff \in SimPayoffs, x \in SimKeywordArgs("KellyCriterion", RZero) :
          /\ strategy = New("KellyCriterion", payoff, ROne, RZero, x).self
          /\ scall = [op |-> "__init__", kind |-> "KellyCriterion", payoff |-> payoff,
                      loss |-> ROne, transaction_cost |-> RZero, x |-> x]
    /\ ret = RZero
    /\ raisedS = "none"
    /\ scalls = 0
    /\ BankIdle
    /\ SimIdle
    /\ search = [status |-> "idle", before |-> <<>>, last |-> <<>>]
    /\ FilterIdle

\* strategy.calculate_max_entry_price(outcomes, probabilities, current_wealth,
\* tolerance, max_search_fraction) is called and enters find_indifference_price
CalculateMaxEntryPriceCall ==
    /\ search.status \in {"idle", "returned"}
    /\ scalls < MaxQueries
    /\ \E g \in Gambles, current_wealth \in Wealths, tolerance \in Tolerances,
          max_search_fraction \in SearchFractions :
          /\ scall' = [op |-> "calculate_max_entry_price",
                       outcomes |-> g.outcomes, probabilities |-> g.probabilities,
                       current_wealth |-> current_wealth, tolerance |-> tolerance,
                       max_search_fraction |-> max_search_fraction,
                       pre |-> strategy]
          /\ search' = [before |-> search.last, last |-> <<>>] @@
                       find_indifference_price(g.outcomes, g.probabilities,
                                               current_wealth, tolerance,
                                               max_search_fraction)
    /\ scalls' = scalls + 1
    /\ raisedS' = "none"
    /\ UNCHANGED <<strategy, ret>>
    /\ UNCHANGED bankVars
    /\ UNCHANGED <<sim, filtering>>

\* one iteration of the while loop
SearchIterate ==
    /\ search.status = "running"
    /\ SearchContinues(search)
    /\ search' = SearchStep(search)
    /\ UNCHANGED stratVars
    /\ UNCHANGED bankVars
    /\ UNCHANGED <<sim, filtering>>

\* the loop is left: `return (low + high) / 2`, handed on by the strategy
CalculateMaxEntryPriceReturn ==
    /\ search.status = "running"
    /\ ~SearchContinues(search)
    /\ LET res == KellyCriterion_calculate_max_entry_price(strategy, Float(Mid(search)))
       IN  /\ strategy' = res.self
           /\ ret' = res.ret
           /\ raisedS' = res.raised
           /\ search' = [search EXCEPT
                            !.status = "returned",
                            !.last = <<[args |-> QueryArgs(scall), ret |-> res.ret]>>]
    /\ UNCHANGED <<scall, scalls>>
    /\ UNCHANGED bankVars
    /\ UNCHANGED <<sim, filtering>>

NextPrice == CalculateMaxEntryPriceCall \/ SearchIterate \/ CalculateMaxEntryPriceReturn

SpecPrice == InitPrice /\ [][NextPrice]_vars

\* the interpreter keeps running the loop and returns when it is left
SpecPriceLive ==
    SpecPrice /\ WF_vars(SearchIterate) /\ WF_vars(CalculateMaxEntryPriceReturn)

---------------------------------------------------------------------------
(* keeks/strategies/base.py: filter_dual_sided, which the strategies of    *)
(* keeks/strategies call on the allocation they return.  A dict is the     *)
(* sequence of its items in insertion order; an Opportunity is hashed by   *)
(* identity (field id), so two entries may name the same matchup.  The     *)
(* outer loop is followed entry by entry.                                  *)

MaxOpps == 3

Teams == {"A", "B", "C"}
\* amounts as round(v * bettable_funds, 2) leaves them
AllocatedAmounts == {RInt(1), RInt(2)}

\* the dicts {opportunity: amount} of up to MaxOpps Opportunity objects, the
\* object in position i being number i
Allocations ==
    UNION {{s \in [1..n -> [opp : [id : 1..n, expected_winner : Teams, expected_loser : Teams], amt : AllocatedAmounts]] :
               \A i \in 1..n : /\ s[i].opp.id = i
                               /\ s[i].opp.expected_winner # s[i].opp.expected_loser} :
           n \in 0..MaxOpps}

\* opp.expected_winner == opp2.expected_loser and
\* opp.expected_loser == opp2.expected_winner
Opposite(opp, opp2) ==
    /\ opp.expected_winner = opp2.expected_loser
    /\ opp.expected_loser = opp2.expected_winner

\* the position of the entry at which the inner loop breaks, 0 if it runs
\* to its end
FirstOpposite(allocation, opp) ==
    LET found == {j \in DOMAIN allocation : Opposite(opp, allocation[j].opp)}
    IN  IF found = {} THEN 0 ELSE CHOOSE j \in found : \A k \in found : j <= k

\* d[opp] = amt
SetItem(d, opp, amt) ==
    IF \E k \in DOMAIN d : d[k].opp = opp
    THEN [k \in DOMAIN d |-> IF d[k].opp = opp THEN [opp |-> opp, amt |-> amt] ELSE d[k]]
    ELSE Append(d, [opp |-> opp, amt |-> amt])

\* filter_dual_sided(self, strategy) entered with the dict allocation: filtered_strategy = dict()
filter_dual_sided(allocation) ==
    [status |-> "running", strategy |-> allocation, next |-> 1, filtered_strategy |-> <<>>]

\* one iteration of `for opp, amt in strategy.items()`
VisitItem(f) ==
    LET item == f.strategy[f.next]
        j == FirstOpposite(f.strategy, item.opp)
        kept == IF j # 0 /\ RLt(item.amt, f.strategy[j].amt) THEN f.strategy[j] ELSE item
    IN  [f EXCEPT !.next = @ + 1,
                  !.filtered_strategy = SetItem(@, kept.opp, kept.amt)]

\* the entry of allocation d for the opportunity opp is there
Holds(d, opp) == \E k \in DOMAIN d : d[k].opp = opp

InitFilter ==
    /\ \E allocation \in Allocations : filtering = filter_dual_sided(allocation)
    /\ StratIdle
    /\ BankIdle
    /\ SimIdle
    /\ SearchIdle

FilterVisit ==
    /\ filtering.status = "running"
    /\ filtering.next <= Len(filtering.strategy)
    /\ filtering' = VisitItem(filtering)
    /\ UNCHANGED stratVars
    /\ UNCHANGED bankVars
    /\ UNCHANGED <<sim, search>>

\* `return filtered_strategy`
FilterReturn ==
    /\ filtering.status = "running"
    /\ filtering.next > Len(filtering.strategy)
    /\ filtering' = [filtering EXCEPT !.status = "returned"]
    /\ UNCHANGED stratVars
    /\ UNCHANGED bankVars
    /\ UNCHANGED <<sim, search>>

NextFilter == FilterVisit \/ FilterReturn

SpecFilter == InitFilter /\ [][NextFilter]_vars

---------------------------------------------------------------------------
(* Claims about filter_dual_sided, checked under SpecFilter.               *)

\* C30: the allocation returned by filter_dual_sided never holds two
\* opportunities that are opposite sides of one matchup, equal amounts
\* included; of such a pair of the input exactly the side with the larger
\* amount is kept.
C30_OneSidePerMatchup ==
    filtering.status = "returned"
        => /\ \A i, j \in DOMAIN filtering.filtered_strategy :
                 ~Opposite(filtering.filtered_strategy[i].opp,
                           filtering.filtered_strategy[j].opp)
           /\ \A i, j \in DOMAIN filtering.strategy :
                 (/\ Opposite(filtering.strategy[i].opp, filtering.strategy[j].opp)
                  /\ RLt(filtering.strategy[j].amt, filtering.strategy[i].amt))
                    => /\ Holds(filtering.filtered_strategy, filtering.strategy[i].opp)
                       /\ ~Holds(filtering.filtered_strategy, filtering.strategy[j].opp)

---------------------------------------------------------------------------
(* Claims about the strategies, checked under SpecStrat.                   *)

\* the last call was evaluate(probability, current_bankroll) with a
\* probability in [0, 1] and a bankroll > 0, and it returned
EvaluateReturned ==
    /\ scall.op = "evaluate"
    /\ RLe(RZero, scall.probability) /\ RLe(scall.probability, ROne)
    /\ RLt(RZero, scall.current_bankroll)
    /\ raisedS = "none"

\* C1: for every strategy class, every valid configuration, every
\* probability in [0, 1] and every bankroll > 0, in every reachable internal
\* state, evaluate returns a fraction f <= get_max_safe_bet(bankroll), so
\* the worst single-trial loss f * bankroll * (loss + transaction_cost)
\* never exceeds bankroll.
C1_EvaluateWithinSafeBet ==
    EvaluateReturned
        => /\ RLe(ret, get_max_safe_bet(strategy, scall.current_bankroll).ret)
           /\ RLe(RMul(RMul(ret, scall.current_bankroll),
                       RAdd(strategy.loss, strategy.transaction_cost)),
                  scall.current_bankroll)

BaseErrors == {PayoffError, LossError, TransactionCostError, TotalCostError}

\* C10: constructing any strategy class with payoff <= 0, loss < 0,
\* transaction_cost < 0 or loss + transaction_cost <= 0 fails with a
\* ValueError, the constraint a base-class error cites is one the
\* arguments violate, and no base-class error is raised otherwise.
C10_ConstructorValidation ==
    scall.op = "__init__"
        => LET payoff_bad == RLe(scall.payoff, RZero)
               loss_bad == RLt(scall.loss, RZero)
               cost_bad == RLt(scall.transaction_cost, RZero)
               total_bad == RLe(RAdd(scall.loss, scall.transaction_cost), RZero)
               bad == payoff_bad \/ loss_bad \/ cost_bad \/ total_bad
           IN  /\ bad => (raisedS # "none" /\ strategy = NoStrategy)
               /\ ~bad => raisedS \notin BaseErrors
               /\ raisedS = PayoffError => payoff_bad
               /\ raisedS = LossError => loss_bad
               /\ raisedS = TransactionCostError => cost_bad
               /\ raisedS = TotalCostError => total_bad
               /\ raisedS = "none" => strategy.kind = scall.kind

\* a constructor call has got past the first three checks and failed the
\* fourth: loss 0 with transaction cost 0
C10_Witness ==
    /\ scall.op = "__init__"
    /\ raisedS = TotalCostError
    /\ RLt(RZero, scall.payoff)

\* the last call was evaluate on an object of the class `kind`
EvaluateOf(kind) == scall.op = "evaluate" /\ scall.pre.kind = kind

Gated == {"KellyCriterion", "FixedFractionStrategy", "CPPIStrategy", "MertonShare"}

EdgeBlind == {"FixedFractionStrategy", "DynamicBankrollManagement"}

\* C12: with any valid configuration and a bankroll > 0, evaluate does not
\* raise for probability exactly 0 or exactly 1; KellyCriterion at
\* probability 1 returns get_max_safe_bet(bankroll), MertonShare at
\* probability 1 returns 0, and every class that sizes its bet from the
\* edge returns 0 at probability 0 (where the expected value
\* -(loss + transaction_cost) is negative).
C12_DegenerateProbabilities ==
    (/\ scall.op = "evaluate"
     /\ scall.probability \in {RZero, ROne}
     /\ RLt(RZero, scall.current_bankroll))
        => /\ raisedS = "none"
           /\ (scall.pre.kind = "KellyCriterion" /\ scall.probability = ROne)
                => ret = RMin(ROne, RDiv(ROne, RAdd(scall.pre.loss,
                                                    scall.pre.transaction_cost)))
           /\ (scall.pre.kind = "MertonShare" /\ scall.probability = ROne)
                => ret = RZero
           /\ (scall.probability = RZero /\ scall.pre.kind \notin EdgeBlind)
                => ret = RZero

\* the Kelly fraction of the cost-adjusted odds b, for b > 0:
\* (b * p - (1 - p)) / b
KellyFraction(payoff, loss, transaction_cost, p) ==
    LET b == RDiv(RSub(payoff, transaction_cost), RAdd(loss, transaction_cost))
    IN  RDiv(RSub(RMul(b, p), RSub(ROne, p)), b)

\* C13: for probability p >= min_probability, a bankroll W > 0 and
\* payoff > transaction_cost, KellyCriterion.evaluate(p, W) returns
\* min(max(0, (b*p - (1-p))/b), get_max_safe_bet(W)) with
\* b = (payoff - transaction_cost)/(loss + transaction_cost), the same for
\* every W > 0; payoff 2, loss 1, cost 0 gives 1/4 at p = 1/2 and payoff 5,
\* loss 1, cost 0 gives 2/5.
C13_KellyFormula ==
    (/\ EvaluateOf("KellyCriterion")
     /\ RLe(scall.pre.min_probability, scall.probability)
     /\ RLt(RZero, scall.current_bankroll)
     /\ RLt(scall.pre.transaction_cost, scall.pre.payoff))
        => LET s == scall.pre
               p == scall.probability
               cap == RMin(ROne, RDiv(ROne, RAdd(s.loss, s.transaction_cost)))
           IN  /\ raisedS = "none"
               /\ ret = RMin(RMax(RZero,
                                  KellyFraction(s.payoff, s.loss,
                                                s.transaction_cost, p)),
                             cap)
               /\ \A W \in {B \in Bankrolls : RLt(RZero, B)} :
                     KellyCriterion_evaluate(s, p, W).ret = ret
               /\ (s.loss = ROne /\ s.transaction_cost = RZero /\ p = RHalf)
                    => /\ s.payoff = RInt(2) => ret = Rat(1, 4)
                       /\ s.payoff = RInt(5) => ret = Rat(2, 5)

\* the bankroll value handed to the CPPI method called last
PassedBankroll(c) ==
    CASE c.op = "evaluate" -> c.current_bankroll
      [] c.op = "update_bankroll" -> c.new_bankroll
      [] c.op = "calculate_max_entry_price" -> c.current_wealth

AfterLoss ==
    RSub(scall.current_bankroll,
         RMul(RMul(ret, scall.current_bankroll),
              RAdd(strategy.loss, strategy.transaction_cost)))

\* C15: CPPIStrategy.evaluate(p, B) does not raise and returns f such that,
\* with the floor as evaluate leaves it, B - f * B * (loss + transaction_cost)
\* >= floor when B >= floor, and f = 0 when B <= floor.
C15_FloorProtected ==
    EvaluateOf("CPPIStrategy")
        => /\ raisedS = "none"
           /\ RLe(RZero, ret)
           /\ RLe(strategy.floor, scall.current_bankroll)
                => RLe(strategy.floor, AfterLoss)
           /\ RLe(scall.current_bankroll, strategy.floor) => ret = RZero

\* the floor is what limits the bet: losing it lands exactly on the floor
C15_Witness ==
    /\ EvaluateOf("CPPIStrategy")
    /\ RLt(RZero, ret)
    /\ AfterLoss = strategy.floor
    /\ RLt(ret, get_max_safe_bet(strategy, scall.current_bankroll).ret)

Dynamic == "DynamicBankrollManagement"

\* the return a record_result call records: return_pct, or the payoff of a
\* win and minus the loss of a loss when return_pct is None
Recorded(c) ==
    IF c.return_pct # None THEN c.return_pct
    ELSE IF c.won THEN c.pre.payoff ELSE RNeg(c.pre.loss)

\* the last k entries of seq
LastEntries(seq, k) == SubSeq(seq, Len(seq) - k + 1, Len(seq))

EvaluateNoHistory == EvaluateOf(Dynamic) /\ scall.pre.results = <<>>

C25_WinRateFallback ==
    (/\ scall.op = "evaluate"
     /\ scall.pre.kind = "OptimalF"
     /\ RLe(scall.probability, RZero)
     /\ RLt(RZero, scall.current_bankroll))
        => LET self == scall.pre
               stored == OptimalF_evaluate(self, self.win_rate, scall.current_bankroll)
               reward == RSub(self.payoff, self.transaction_cost)
               risk == RAdd(self.loss, self.transaction_cost)
           IN  /\ raisedS = stored.raised
               /\ ret = stored.ret
               /\ RLt(RMul(RSub(ROne, self.win_rate), risk), RMul(self.win_rate, reward))
                    => RLt(RZero, ret)

\* C27: for every strategy variant, evaluate(probability, current_bankroll)
\* with current_bankroll = 0 (an emptied bankroll, which a simulator run can
\* reach) returns a bet size instead of raising.
C27_EmptyBankrollReturns ==
    (/\ scall.op = "evaluate"
     /\ scall.current_bankroll = RZero
     /\ RLe(RZero, scall.probability) /\ RLe(scall.probability, ROne))
        => raisedS = "none"

\* C28: CPPIStrategy.calculate_max_entry_price leaves the running state of the
\* strategy (current_bankroll, peak_bankroll, floor) as it was before the
\* query, so later evaluations and queries do not depend on earlier queries.
C28_CPPIQueryKeepsState ==
    scall.op = "calculate_max_entry_price"
        => /\ strategy.current_bankroll = scall.pre.current_bankroll
           /\ strategy.peak_bankroll = scall.pre.peak_bankroll
           /\ strategy.floor = scall.pre.floor

---------------------------------------------------------------------------
(* Claims about simulator runs, checked under SpecSim.                     *)

\* C16: in a RepeatedBinarySimulator run driven by a CPPIStrategy built with
\* the simulator's payoff, loss and transaction cost and the bankroll's
\* initial funds, after every trial the bankroll's total funds are at or
\* above the strategy's floor (floor_fraction * peak bankroll), whatever the
\* sequence of wins and losses.
C16_FloorHeldInSimulation ==
    (strategy.kind = "CPPIStrategy" /\ sim.trial > 0)
        => RLe(strategy.floor, total_funds(bankroll))

\* C20: evaluate_strategy runs its trials one after the other and at most
\* `trials` of them, asking the strategy and the bankroll at most once per
\* trial; when a bankroll operation raises RuinError the run ends with that
\* error (nothing catches it), and from then on no step asks the strategy
\* for a bet or changes the bankroll.
C20_RuinEndsTheRun ==
    /\ [](/\ sim.trial <= sim.trials
          /\ scalls = sim.trial
          /\ calls <= sim.trial)
    /\ [](raised = SlowDown => sim.status = SlowDown)
    /\ [][sim'.trial \in {sim.trial, sim.trial + 1}]_vars
    /\ [][raised = SlowDown
            => /\ bankroll' = bankroll
               /\ strategy' = strategy
               /\ scalls' = scalls
               /\ calls' = calls]_vars

\* a withdrawal has raised RuinError in a trial after the first with trials
\* still to go, and the run has ended there
C20_Witness ==
    /\ sim.status = SlowDown
    /\ raised = SlowDown
    /\ sim.trial > 1
    /\ sim.trial < sim.trials

\* C29: in every simulator trial a winning outcome never decreases the
\* bankroll's funds and a losing outcome never increases them; a trial in
\* which the strategy returns a bet fraction of 0 changes the funds by at most
\* the transaction cost, in the losing direction only.
C29_OutcomeDirection ==
    /\ sim.outcome = "win" => RLe(total_funds(call.pre), total_funds(bankroll))
    /\ sim.outcome = "lose" => RLe(total_funds(bankroll), total_funds(call.pre))
    /\ (sim.outcome \in {"win", "lose"} /\ ret = RZero)
          => /\ RLe(total_funds(bankroll), total_funds(call.pre))
             /\ RLe(RSub(total_funds(call.pre), sim.transaction_costs),
                    total_funds(bankroll))

\* a strategy betting a fixed positive fraction at unfavourable odds
\* (payoff * p < loss * (1 - p)) on a bankroll with no drawdown limit
FixedFractionAtBadOdds ==
    /\ strategy.kind = "FixedFractionStrategy"
    /\ RLt(RZero, strategy.fraction)
    /\ RLt(RMul(sim.payoff, sim.probability),
           RMul(sim.loss, RSub(ROne, sim.probability)))
    /\ ~has_limit(bankroll)

\* the bankroll's funds are used up
Exhausted == RLe(total_funds(bankroll), RZero)

\* C21: when a strategy keeps betting a fixed positive fraction at
\* unfavourable odds with no drawdown limit, evaluate_strategy stops before
\* performing all configured trials once the bankroll is exhausted: no trial
\* is run on an exhausted bankroll, and the run is over without an exception,
\* with fewer history entries than trials and total_funds >= 0.
C21_StopsAtBankruptcy ==
    /\ [][(FixedFractionAtBadOdds /\ Exhausted) => sim'.trial = sim.trial]_vars
    /\ []((FixedFractionAtBadOdds /\ Exhausted /\ sim.status # "running")
            => /\ sim.status = "done"
               /\ Len(bankroll.history) < sim.trials
               /\ RLe(RZero, total_funds(bankroll)))

\* C22: during any simulator run (any strategy, any payoff, loss and
\* transaction-cost configuration, any sequence of wins and losses, whether
\* the run completes or ends in RuinError) no entry of bankroll.history is
\* negative.
C22_NoNegativeHistory ==
    \A i \in DOMAIN bankroll.history : RLe(RZero, bankroll.history[i])

---------------------------------------------------------------------------
(* Claims about entry prices, checked under SpecPrice and SpecPriceLive.   *)

\* the call in progress or last made is calculate_max_entry_price
PriceAsked == scall.op = "calculate_max_entry_price"

C24_SearchTerminates ==
    /\ (search.status = "running") ~> (search.status = "returned")
    /\ [][(search.status = "running" /\ ~SearchContinues(search))
            => search'.status = "returned"]_vars
    /\ [](search.status = "returned"
            => /\ RLe(RZero, ret)
               /\ RLe(ret, RMul(scall.max_search_fraction, scall.current_wealth)))

---------------------------------------------------------------------------
(* Claims about the ledger, checked under SpecBank.                        *)

IsDebit == call.op \in {"withdraw", "remove_funds"}

\* C2: funds is >= 0 in every observable state, after any sequence of
\* deposit, withdraw, bet, add_funds and remove_funds calls with positive
\* amounts, whether each call succeeded or raised.
C2_FundsNeverNegative == RLe(RZero, bankroll.bank)

\* C3: withdraw(amount) with amount > funds raises the bankruptcy RuinError
\* for every max_draw_down setting, None included, and never the slow-down
\* one in its place.
C3_OverdraftRaisesBankruptcy ==
    (call.op = "withdraw" /\ RLt(call.pre.bank, call.amt))
        => raised = "RuinError: bankruptcy"

\* C4: with a drawdown limit configured, withdraw(amount) with
\* 0 < amount <= funds is rejected with the slow-down RuinError exactly when
\* amount > max_draw_down * (funds before the withdrawal); in every other
\* case it succeeds and funds decrease by exactly amount.
C4_DrawdownOnFundsBefore ==
    (call.op = "withdraw" /\ RLe(call.amt, call.pre.bank))
        => IF has_limit(call.pre)
              /\ RLt(RMul(call.pre.max_draw_down, call.pre.bank), call.amt)
           THEN raised = SlowDown
           ELSE /\ raised = "none"
                /\ bankroll.bank = RSub(call.pre.bank, call.amt)

\* C5: whenever withdraw or remove_funds raises RuinError, funds,
\* total_funds and history are exactly what they were before the call.
C5_RuinLeavesStateUnchanged ==
    (IsDebit /\ raised = SlowDown)
        => /\ bankroll.bank = call.pre.bank
           /\ total_funds(bankroll) = total_funds(call.pre)
           /\ bankroll.history = call.pre.history

\* C6: in every bankroll state and for every amount, remove_funds(amount)
\* and withdraw(amount) have the same outcome: the same exception or none,
\* the same funds and the same history.
C6_RemoveFundsSameAsWithdraw ==
    \A amt \in Amounts : remove_funds(bankroll, amt) = withdraw(bankroll, amt)

\* C7: history[0] is the initial funds and the length of history is 1 + the
\* number of calls that changed funds (a call that raises changes neither).
C7_HistoryCountsMutations ==
    /\ bankroll.history[1] \in InitialFunds
    /\ Len(bankroll.history) = 1 + mutations
    /\ (raised # "none" => bankroll.bank = call.pre.bank)

\* C8: for x > 0 within the drawdown limit (no limit, or
\* x <= max_draw_down * (funds + x)), deposit(x) followed by withdraw(x)
\* returns total_funds to its value before the deposit and makes history
\* exactly 2 entries longer.
C8_DepositWithdrawRoundTrip ==
    [][(/\ call.op = "deposit"
        /\ call'.op = "withdraw"
        /\ call'.amt = call.amt
        /\ \/ ~has_limit(call.pre)
           \/ RLe(call.amt, RMul(call.pre.max_draw_down, RAdd(call.pre.bank, call.amt))))
       => /\ total_funds(bankroll') = total_funds(call.pre)
          /\ Len(bankroll'.history) = Len(call.pre.history) + 2]_vars

\* C26: in every reachable BankRoll state, the state observed after an
\* operation raised RuinError or ValueError included, the last entry of
\* history equals total_funds.
C26_HistoryEndsAtTotalFunds ==
    bankroll.history[Len(bankroll.history)] = total_funds(bankroll)

\* C9: bet(amount) raises ValueError and leaves funds and history unchanged
\* when amount > bettable_funds; otherwise it debits funds by exactly
\* amount, with no ruin or drawdown check, and appends one history entry.
C9_BetSizing ==
    call.op = "bet"
        => IF RLt(bettable_funds(call.pre), call.amt)
           THEN /\ raised = BetTooLarge
                /\ bankroll = call.pre
           ELSE /\ raised = "none"
                /\ bankroll.bank = RSub(call.pre.bank, call.amt)
                /\ bankroll.history
                      = Append(call.pre.history, Round2(RSub(call.pre.bank, call.amt)))
                /\ bankroll.percent_bettable = call.pre.percent_bettable
                /\ bankroll.max_draw_down = call.pre.max_draw_down

\* a bet refused for its size has been seen, and so has a bet accepted
\* although it exceeds the drawdown limit and empties the ledger
C9_Witness ==
    /\ call.op = "bet"
    /\ raised = "none"
    /\ has_limit(call.pre)
    /\ RLt(RMul(call.pre.max_draw_down, call.pre.bank), call.amt)
    /\ bankroll.bank = RZero

===========================================================================
